---- MODULE Spec2Model ----
(***************************************************************************)
(* Model of aidoodle's Nim engine (aidoodle/games/nim.py) and of the game  *)
(* driver (aidoodle/run.py).                                               *)
(*                                                                         *)
(* Python values are represented as follows:                               *)
(*   Optional[T]      a sequence: <<>> is None, <<x>> is the value x       *)
(*   Board            a function 0..2 -> Int (the `state` tuple; indices   *)
(*                    are the source's 0-based heap indices)               *)
(*   Move             a record [i, j]                                      *)
(*   Player           its identifier i (Player.__eq__ compares only i)     *)
(*   Game             a record [players, board, player_idx]                *)
(*   List[Move]       a sequence of Move records, in generation order      *)
(***************************************************************************)
EXTENDS Integers, Sequences, FiniteSets, TLC

\* ---------------------------------------------------------------- bounds
\* Largest heap size of a board given to init_game or Game.
MaxHeap == 4
\* Largest heap size of the board a match of _play_game starts from.
MaxMatchHeap == 3
\* Largest number of matches asked of play_game.
MaxRuns == 2
\* Largest number of prompts answered in one CliInputAgent.next_move call.
MaxPrompts == 3

\* ------------------------------------------------------------ value types
POSSIBLE_PLAYERS == {-1, 1, 2}
POSSIBLE_HEAPS == {0, 1, 2}

None == <<>>
Some(x) == <<x>>

\* Move.__post_init__: the conditions under which the construction raises.
Move_post_init_raises(i, j) == (i \notin POSSIBLE_HEAPS) \/ (j < 1)

Move(i, j) == [i |-> i, j |-> j]

Board(a, b, c) == [k \in 0..2 |-> IF k = 0 THEN a ELSE IF k = 1 THEN b ELSE c]

\* Board(): the default state.
DefaultBoard == Board(3, 4, 5)

Players(p, q) == [k \in 0..1 |-> IF k = 0 THEN p ELSE q]

Game(players_, board_, player_idx_) ==
    [players |-> players_, board |-> board_, player_idx |-> player_idx_]

\* Game.player
player(g) == g.players[g.player_idx]

\* sum(board): iterates Board.__iter__, i.e. the three entries of state.
sum(b) == b[0] + b[1] + b[2]

\* ------------------------------------------------------------- game rules
determine_winner_first_heap(g) ==
    IF g.board[0] # 0 THEN None ELSE Some(player(g))

determine_winner(g) ==
    IF sum(g.board) # 0 THEN None ELSE Some(player(g))

\* Game.winner
winner(g) == determine_winner(g)

get_next_player_idx_same(g) == IF player(g) = 1 THEN 0 ELSE 1

\* int(game.player == Player(1))
get_next_player_idx(g) == IF player(g) = 1 THEN 1 ELSE 0

\* The moves generated for heap i holding n stones: range(1, n + 1).
heap_moves_short(i, n) == [j \in 1..(n - 1) |-> Move(i, j)]

heap_moves(i, n) == IF n = 0 THEN <<>> ELSE [j \in 1..n |-> Move(i, j)]

\* _get_all_moves: the generator's output as a list, heaps in index order.
get_all_moves(b) == heap_moves(0, b[0]) \o heap_moves(1, b[1]) \o heap_moves(2, b[2])

get_legal_moves(g) == IF winner(g) # None THEN <<>> ELSE get_all_moves(g.board)

apply_move_raises_off_by_one(b, m) == b[m.i] + 1 < m.j

\* apply_move raises ValueError('illegal move').
apply_move_raises(b, m) == b[m.i] < m.j

apply_move_wrong_heap(b, m) ==
    LET state == b
        i_heap == m.i
        n_stones == m.j
    IN  Board(IF i_heap = 0 THEN state[0] - n_stones ELSE state[0],
              IF i_heap = 0 THEN state[1] - n_stones ELSE state[1],
              IF i_heap = 2 THEN state[2] - n_stones ELSE state[2])

apply_move_keeps_last_heap(b, m) ==
    LET state == b
        i_heap == m.i
        n_stones == m.j
    IN  Board(IF i_heap = 0 THEN state[0] - n_stones ELSE state[0],
              IF i_heap = 1 THEN state[1] - n_stones ELSE state[1],
              state[2])

\* apply_move's result when it does not raise.
apply_move(b, m) ==
    LET state == b
        i_heap == m.i
        n_stones == m.j
    IN  Board(IF i_heap = 0 THEN state[0] - n_stones ELSE state[0],
              IF i_heap = 1 THEN state[1] - n_stones ELSE state[1],
              IF i_heap = 2 THEN state[2] - n_stones ELSE state[2])

\* make_move's result when apply_move does not raise.
make_move(g, m) == Game(g.players, apply_move(g.board, m), get_next_player_idx(g))

\* init_game(board, player_idx), with the players in either order.
init_game(ps, b, idx) == Game(ps, b, idx)

\* ------------------------------------------------------------------ state
VARIABLES
    game,         \* the caller's current Game value
    prev,         \* the Game passed to the last call
    move,         \* Optional: the (i, j) given to or chosen by the last call
    legal_moves,  \* the list get_legal_moves returned in the last agent call
    op,           \* the last call: "init", "make_move" (move given), "get_move" (agent)
    err,          \* how the last call ended: "none" or the exception raised
    game0,        \* Optional: the Game the running match of _play_game started from
    mover,        \* Optional: identifier of the player whose move was last applied in the match
    n_moves,      \* number of moves applied in the match
    \* CliInputAgent.next_move
    cli_pc,       \* "idle", "prompt" (blocked in input()), "returned", "exit0", "exit1"
                  \* (sys.exit status) or the exception that left next_move uncaught
    moves,        \* next_move's local list of legal moves
    inp,          \* Optional: the last line read by _ask_input
    cli_move,     \* Optional: the move next_move returned
    n_prompts,    \* lines read so far in this call
    \* play_game
    run_pc,       \* "idle", "while" (loop test), "match" (inside _play_game), "returned"
                  \* or the exception that left play_game
    n_runs,       \* Optional[int]: None is interactive mode
    n_games, n_wins_1, n_wins_2, n_ties,
    cont          \* the last answer to "(q) to quit playing: "

callVars == <<game, prev, move, legal_moves, op, err>>
matchVars == <<game0, mover, n_moves>>
cliVars == <<cli_pc, moves, inp, cli_move, n_prompts>>
tallyVars == <<n_games, n_wins_1, n_wins_2, n_ties, cont>>
runVars == <<run_pc, n_runs, n_games, n_wins_1, n_wins_2, n_ties, cont>>
vars == <<game, prev, move, legal_moves, op, err, game0, mover, n_moves,
          cli_pc, moves, inp, cli_move, n_prompts,
          run_pc, n_runs, n_games, n_wins_1, n_wins_2, n_ties, cont>>

\* Arguments tried for Move(i, j): in and out of range.
HeapArgs == -1..3
CountArgs == 0..(MaxHeap + 1)

Boards == {Board(a, b, c) : a \in 0..MaxHeap, b \in 0..MaxHeap, c \in 0..MaxHeap}
PlayerOrders == {Players(1, 2), Players(2, 1)}

\* A Game as the caller constructs it: init_game(board, player_idx) or Game(...).
InitGame ==
    /\ \E ps \in PlayerOrders, b \in Boards, idx \in 0..1 :
           game = init_game(ps, b, idx)
    /\ prev = game
    /\ move = None
    /\ legal_moves = <<>>
    /\ op = "init"
    /\ err = "none"

\* No next_move call is in progress.
CliIdle ==
    /\ cli_pc = "idle"
    /\ moves = <<>>
    /\ inp = None
    /\ cli_move = None
    /\ n_prompts = 0

\* play_game's locals as set before its loop (lines 14-19).
TallyZero ==
    /\ n_games = 0
    /\ n_wins_1 = 0
    /\ n_wins_2 = 0
    /\ n_ties = 0
    /\ cont = "t"

Init ==
    /\ InitGame
    /\ game0 = None
    /\ mover = None
    /\ n_moves = 0
    /\ CliIdle
    /\ run_pc = "idle"
    /\ n_runs = None
    /\ TallyZero

\* The caller's game after make_move(game, m) returned normally.
Applied(m) ==
    /\ game' = make_move(game, m)
    /\ err' = "none"

\* The caller's game after the call raised exc: no new Game exists.
Raised(exc) ==
    /\ err' = exc
    /\ UNCHANGED game

\* make_move(game, Move(i, j)): the move is given by the caller.
MakeMove(i, j) ==
    /\ op' = "make_move"
    /\ prev' = game
    /\ move' = Some(Move(i, j))
    /\ legal_moves' = <<>>
    /\ UNCHANGED <<matchVars, cliVars, runVars>>
    /\ IF Move_post_init_raises(i, j)
         THEN Raised("ValueError")
         ELSE IF apply_move_raises(game.board, Move(i, j))
                THEN Raised("ValueError")
                ELSE Applied(Move(i, j))

\* make_move(game) with move None: get_move asks the player's RandomAgent,
\* which draws from get_legal_moves(game) with random.choice.
AgentMove ==
    /\ op' = "get_move"
    /\ prev' = game
    /\ legal_moves' = get_legal_moves(game)
    /\ IF Len(get_legal_moves(game)) = 0
         THEN /\ move' = None
              /\ Raised("IndexError")
         ELSE \E k \in 1..Len(get_legal_moves(game)) :
                LET m == get_legal_moves(game)[k] IN
                /\ move' = Some(m)
                /\ IF apply_move_raises(game.board, m)
                     THEN Raised("ValueError")
                     ELSE Applied(m)

MakeMoveAgent ==
    /\ AgentMove
    /\ UNCHANGED <<matchVars, cliVars, runVars>>

Next ==
    \/ \E i \in HeapArgs, j \in CountArgs : MakeMove(i, j)
    \/ MakeMoveAgent

Spec == Init /\ [][Next]_vars

\* ------------------------------------------------------- one match (run.py)
MatchBoards ==
    {Board(a, b, c) : a \in 0..MaxMatchHeap, b \in 0..MaxMatchHeap, c \in 0..MaxMatchHeap}

\* _play_game's Game(players=(player1, player2), board=...) before the loop:
\* player_idx is left at its default 0; the board is any board, not only
\* the engine's default.
InitMatch ==
    /\ \E ps \in PlayerOrders, b \in MatchBoards : game = Game(ps, b, 0)
    /\ prev = game
    /\ move = None
    /\ legal_moves = <<>>
    /\ op = "init"
    /\ err = "none"
    /\ game0 = Some(game)
    /\ mover = None
    /\ n_moves = 0
    /\ CliIdle
    /\ run_pc = "match"
    /\ n_runs = None
    /\ TallyZero

\* One pass of `while not game.winner: game = engine.make_move(game=game)`.
PlayStep ==
    /\ run_pc = "match"
    /\ winner(game) = None
    /\ AgentMove
    /\ UNCHANGED <<game0, cliVars, runVars>>
    /\ mover' = IF err' = "none" THEN Some(player(game)) ELSE mover
    /\ n_moves' = IF err' = "none" THEN n_moves + 1 ELSE n_moves

NextMatch == PlayStep

\* The loop is sequential code: it keeps running while its condition holds.
SpecMatch == InitMatch /\ [][NextMatch]_vars /\ WF_vars(PlayStep)

\* ------------------------------------------- CliInputAgent (nim.py 62-86)
\* A line typed at "choose next move: ", by what `inp == 'q'`, eval(inp) and
\* Move(*...) do with it:
\*   "q"       the quit token
\*   "pair"    a tuple of two ints, e.g. "(0, 2)" or "0, 2": Move(i, j) is built
\*   "scalar"  a value that cannot be unpacked, e.g. "3": Move(*3) is a TypeError
\*   "name"    an undefined identifier, e.g. "quit": eval raises NameError
\*   "syntax"  not an expression, e.g. "(": eval raises SyntaxError
Line(kind, i, j) == [kind |-> kind, i |-> i, j |-> j]

Lines ==
    {Line("pair", i, j) : i \in HeapArgs, j \in CountArgs}
    \cup {Line(k, 0, 0) : k \in {"q", "scalar", "name", "syntax"}}

\* `move in moves`: list membership by Move.__eq__.
move_in(m, L) == \E k \in 1..Len(L) : L[k].i = m.i /\ L[k].j = m.j

\* _ask_input on line x: "move" when it returns Move(x.i, x.j), otherwise how
\* it leaves: sys.exit(0), sys.exit(1), or an exception it does not catch.
ask_input(x) ==
    IF x.kind = "q" THEN "exit0"
    ELSE IF x.kind \in {"scalar", "name"} THEN "exit1"
    ELSE IF x.kind = "syntax" THEN "SyntaxError"
    ELSE IF Move_post_init_raises(x.i, x.j) THEN "ValueError"
    ELSE "move"

\* next_move(game) on any Game, before the call.
InitCli == Init

\* next_move up to its first input(): the legal moves are computed and printed.
NextMoveCall ==
    /\ cli_pc = "idle"
    /\ moves' = get_legal_moves(game)
    /\ cli_pc' = "prompt"
    /\ UNCHANGED <<inp, cli_move, n_prompts, callVars, matchVars, runVars>>

\* One _ask_input() and the `while move not in moves` test that follows it.
AskInput(x) ==
    /\ cli_pc = "prompt"
    /\ n_prompts < MaxPrompts
    /\ inp' = Some(x)
    /\ n_prompts' = n_prompts + 1
    /\ IF ask_input(x) # "move"
         THEN cli_pc' = ask_input(x) /\ UNCHANGED cli_move
         ELSE IF move_in(Move(x.i, x.j), moves)
                THEN cli_pc' = "returned" /\ cli_move' = Some(Move(x.i, x.j))
                ELSE cli_pc' = "prompt" /\ UNCHANGED cli_move
    /\ UNCHANGED <<moves, callVars, matchVars, runVars>>

NextCli ==
    \/ NextMoveCall
    \/ \E x \in Lines : AskInput(x)

SpecCli == InitCli /\ [][NextCli]_vars

\* ------------------------------------------------- play_game (run.py 13-39)
StopTokens == {"f", "q", "quit"}
\* Answers to "(q) to quit playing: ".
Answers == {"", "y", "f", "q", "quit"}

\* play_game(Player(1), Player(2), engine=nim, n_runs=...), as run and
\* simulate call it, before the loop.
InitRun ==
    /\ game = Game(Players(1, 2), DefaultBoard, 0)
    /\ prev = game
    /\ move = None
    /\ legal_moves = <<>>
    /\ op = "init"
    /\ err = "none"
    /\ game0 = None
    /\ mover = None
    /\ n_moves = 0
    /\ CliIdle
    /\ run_pc = "while"
    /\ n_runs \in {None} \cup {Some(n) : n \in 0..MaxRuns}
    /\ TallyZero

\* The loop test; when it passes, _play_game builds its Game (lines 49-52).
WhileTest ==
    /\ run_pc = "while"
    /\ IF cont \notin StopTokens
         THEN /\ run_pc' = "match"
              /\ game' = Game(Players(1, 2), DefaultBoard, 0)
              /\ game0' = Some(game')
              /\ prev' = game'
              /\ move' = None
              /\ legal_moves' = <<>>
              /\ op' = "init"
              /\ err' = "none"
              /\ mover' = None
              /\ n_moves' = 0
         ELSE /\ run_pc' = "returned"
              /\ UNCHANGED <<callVars, matchVars>>
    /\ UNCHANGED <<n_runs, tallyVars, cliVars>>

\* _play_game returns game.winner; the rest of the loop body (lines 22-39)
\* with answer c read when n_runs is None.
MatchEnd(c) ==
    /\ run_pc = "match"
    /\ winner(game) # None
    /\ cont' = IF n_runs = None THEN c ELSE cont
    /\ n_games' = n_games + 1
    /\ LET w == winner(game)[1]
           counted == w \in {1, 2, -1}
       IN  /\ n_wins_1' = IF w = 1 THEN n_wins_1 + 1 ELSE n_wins_1
           /\ n_wins_2' = IF w # 1 /\ w = 2 THEN n_wins_2 + 1 ELSE n_wins_2
           /\ n_ties' = IF w # 1 /\ w # 2 /\ w = -1 THEN n_ties + 1 ELSE n_ties
           /\ run_pc' = IF ~counted THEN "ValueError"
                        ELSE IF n_runs = None THEN "TypeError"
                        ELSE IF n_games' >= n_runs[1] THEN "returned"
                        ELSE "while"
    /\ UNCHANGED <<n_runs, callVars, matchVars, cliVars>>

NextRun ==
    \/ WhileTest
    \/ PlayStep
    \/ \E c \in (IF n_runs = None THEN Answers ELSE {cont}) : MatchEnd(c)

SpecRun == InitRun /\ [][NextRun]_vars

\* ------------------------------------------------------------ properties
AllZero(b) == \A k \in POSSIBLE_HEAPS : b[k] = 0

\* The last call applied a move (it returned a new Game).
MoveApplied == op \in {"make_move", "get_move"} /\ err = "none" /\ move # None

\* C1: misere rule. In a match between (Player 1, Player 2) started from a
\* non-empty board, once the board is all zeros the winner is a player and
\* is not the player who took the last stone; from board (1,1,1) with
\* player 1 starting the winner is player 2.
C1_MisereWinner ==
    (/\ game0 # None
     /\ game.players = Players(1, 2)
     /\ sum(game0[1].board) > 0
     /\ AllZero(game.board))
    => /\ winner(game) # None
       /\ mover # None
       /\ winner(game)[1] \in {1, 2}
       /\ winner(game)[1] # mover[1]
       /\ (game0[1].board = Board(1, 1, 1) /\ game0[1].player_idx = 0
             => n_moves = 3 /\ mover = Some(1) /\ winner(game) = Some(2))

C1_Witness ==
    /\ game0 # None
    /\ game.players = Players(1, 2)
    /\ game0[1].board = Board(1, 1, 1)
    /\ game0[1].player_idx = 0
    /\ AllZero(game.board)
    /\ winner(game) = Some(2)

\* C2: in every reachable Game, winner is None exactly when the heap sum is
\* non-zero, and is Player 1 or Player 2 exactly when all heaps are zero.
C2_WinnerIffTerminal ==
    /\ (winner(game) = None) <=> (sum(game.board) # 0)
    /\ (winner(game) # None) <=> AllZero(game.board)
    /\ winner(game) # None => winner(game)[1] \in {1, 2}

C2_Witness ==
    /\ MoveApplied
    /\ AllZero(game.board)
    /\ ~AllZero(prev.board)
    /\ winner(prev) = None
    /\ winner(game) = Some(2)

\* C3: a move (i, j) with i a heap and 1 <= j <= board[i] is applied without
\* error; heap i of the new board is board[i] - j, strictly smaller, and the
\* two other heaps are those of the input board.
C3_ApplyMoveFrame ==
    (/\ op \in {"make_move", "get_move"}
     /\ move # None
     /\ move[1].i \in POSSIBLE_HEAPS
     /\ 1 <= move[1].j
     /\ move[1].j <= prev.board[move[1].i])
    => /\ err = "none"
       /\ game.board[move[1].i] = prev.board[move[1].i] - move[1].j
       /\ game.board[move[1].i] < prev.board[move[1].i]
       /\ \A k \in POSSIBLE_HEAPS \ {move[1].i} : game.board[k] = prev.board[k]

C3_Witness ==
    /\ op = "make_move"
    /\ err = "none"
    /\ move = Some(Move(1, 2))
    /\ prev.board = Board(2, 3, 1)
    /\ game.board = Board(2, 1, 1)

\* The moves the rules allow on board b.
LegalMoveSet(b) ==
    {m \in [i : POSSIBLE_HEAPS, j : 1..(b[0] + b[1] + b[2])] : b[m.i] > 0 /\ m.j <= b[m.i]}

ListsExactly(L, S) ==
    /\ {L[k] : k \in 1..Len(L)} = S
    /\ Len(L) = Cardinality(S)

\* C4: get_legal_moves lists exactly the moves (i, j) with board[i] > 0 and
\* 1 <= j <= board[i], each once, for a non-terminal game, and is the empty
\* list for a game whose heaps are all zero.
C4_LegalMoves ==
    /\ ~AllZero(game.board) =>
           ListsExactly(get_legal_moves(game), LegalMoveSet(game.board))
    /\ AllZero(game.board) => get_legal_moves(game) = <<>>
    /\ op = "get_move" =>
           IF AllZero(prev.board)
             THEN legal_moves = <<>>
             ELSE ListsExactly(legal_moves, LegalMoveSet(prev.board))

C4_Witness ==
    /\ op = "get_move"
    /\ prev.board = Board(2, 0, 1)
    /\ legal_moves = <<Move(0, 1), Move(0, 2), Move(2, 1)>>

\* C5: a well-formed move whose count exceeds the targeted heap raises
\* ValueError and yields no new game; no reachable board has a negative heap.
C5_IllegalMoveRaises ==
    /\ (/\ op = "make_move"
        /\ move # None
        /\ ~Move_post_init_raises(move[1].i, move[1].j)
        /\ move[1].j > prev.board[move[1].i])
       => err = "ValueError" /\ game = prev
    /\ \A k \in POSSIBLE_HEAPS : game.board[k] >= 0

C5_Witness ==
    /\ op = "make_move"
    /\ err = "ValueError"
    /\ move = Some(Move(0, 3))
    /\ prev.board = Board(2, 1, 0)
    /\ game = prev

\* C6: every pass of the match loop strictly decreases the heap sum, no heap
\* goes below zero, the number of moves never exceeds the initial heap sum,
\* and the match reaches a game with a winner.
C6_MatchTerminates ==
    /\ [][sum(game'.board) < sum(game.board)]_vars
    /\ [](/\ \A k \in POSSIBLE_HEAPS : game.board[k] >= 0
          /\ n_moves + sum(game.board) <= sum(game0[1].board))
    /\ <>(winner(game) # None)

C6_Witness ==
    /\ game0 # None
    /\ sum(game0[1].board) = 3 * MaxMatchHeap
    /\ n_moves = 3 * MaxMatchHeap
    /\ winner(game) # None

\* C10: make_move keeps the players tuple and flips player_idx.
C10_TurnsAlternate ==
    MoveApplied =>
        /\ game.players = prev.players
        /\ game.player_idx = 1 - prev.player_idx

\* C7: in interactive mode play_game never leaves with an exception, and
\* returns only after a stop token was answered.
C7_InteractiveUntilStop ==
    n_runs = None =>
        /\ run_pc \notin {"TypeError", "ValueError"}
        /\ run_pc = "returned" => cont \in StopTokens

\* C8: in fixed-count mode play_game never prompts, the tally satisfies
\* games = wins 1 + wins 2 + ties, and it returns after exactly n_runs matches.
C8_FixedCount ==
    n_runs # None =>
        /\ cont = "t"
        /\ run_pc \notin {"TypeError", "ValueError"}
        /\ n_games = n_wins_1 + n_wins_2 + n_ties
        /\ run_pc = "returned" => n_games = n_runs[1]

\* C9: next_move returns only a legal move; a line that is a pair (i, j) with
\* j >= 1 that is not a legal move (a non-existent heap, or a count larger
\* than the heap) leads to another prompt; 'q' exits the process.
C9_IllegalInputReprompts ==
    /\ cli_pc = "returned" =>
           cli_move # None /\ cli_move[1] \in LegalMoveSet(game.board)
    /\ (inp # None /\ inp[1].kind = "q") => cli_pc = "exit0"
    /\ (/\ inp # None
        /\ inp[1].kind = "pair"
        /\ inp[1].j >= 1
        /\ Move(inp[1].i, inp[1].j) \notin LegalMoveSet(game.board))
       => cli_pc = "prompt"

====
